---------------------------- MODULE Spec2Model ----------------------------
(***************************************************************************)
(* Live-session detection, poll scheduler, snapshot cache and read facade  *)
(* of the F1 live dashboard backend (src/backend/redis_live_service.py     *)
(* and src/backend/data_service.py), and the ingestion of results and laps *)
(* into the historical store (src/backend/migrate_sqlite.py).              *)
(*                                                                         *)
(* Time is counted in whole hours (UTC).                                   *)
(***************************************************************************)
EXTENDS Integers, Sequences, FiniteSets, TLC

(***************************************************************************)
(* Program constants                                                       *)
(***************************************************************************)
\* timedelta(hours=4): the live window of a sub-session
BUFFER_HOURS == 4
\* timedelta(days=2), in hours
TWO_DAYS_HOURS == 48
\* range(1, 6): the sub-session slots Session1..Session5 of an event
NUM_SESSIONS == 5
\* DATA_TTL = 3600 seconds, in hours
DATA_TTL == 1

(***************************************************************************)
(* Bounds of the model                                                     *)
(***************************************************************************)
\* latest wall-clock hour of the detector's input space
MaxNow == 62
\* latest wall-clock hour of the running system
MaxTime == 7
\* poll loop threads that can exist at once
MaxThreads == 2

(***************************************************************************)
(* Values                                                                  *)
(***************************************************************************)
\* Python None / an absent key
None == [none |-> TRUE]
\* pandas NaT: an undefined sub-session slot
NaT == -1

SessionNames == <<"Practice 1", "Practice 2", "Practice 3", "Qualifying", "Race">>

\* datetime.isoformat(): the timestamp rendered as text
IsoFormat(t) == [iso |-> t]

\* One row of the event schedule (fastf1 EventSchedule)
Event(year, round, date, dates) ==
    [year |-> year, round |-> round, EventDate |-> date,
     names |-> SessionNames, dates |-> dates]

VARIABLES
    now,              \* wall-clock time (datetime.utcnow()), hours
    calendar,         \* the event schedule fastf1 serves, ordered by date
    sqlite,           \* the historical store: its results and laps tables
    redis,            \* the Redis store: key -> None or [val, ttl]
    polling_active,   \* RedisLiveDataService.polling_active
    polling_thread,   \* RedisLiveDataService.polling_thread (NoThread or an id)
    current_session,  \* RedisLiveDataService.current_session
    tpc,              \* where each poll loop thread stands
    tload,            \* the session a thread is loading from the provider
    cyc,              \* what the thread's current poll cycle has done so far
    startPc,          \* where each caller of start_polling stands
    stopPc,           \* where the caller of stop_polling stands
    stopped,          \* stop_polling has returned and nothing restarted since
    ret               \* the value returned by the last call under study

vars == <<now, calendar, sqlite, redis, polling_active, polling_thread, current_session,
          tpc, tload, cyc, startPc, stopPc, stopped, ret>>

procVars == <<polling_active, polling_thread, current_session,
              tpc, tload, cyc, startPc, stopPc, stopped>>

(***************************************************************************)
(* Session Detector: RedisLiveDataService.detect_current_session           *)
(***************************************************************************)
\* fastf1.get_events_remaining(now): the schedule rows dated now or later
EventsRemaining(t, cal) == SelectSeq(cal, LAMBDA e : e.EventDate >= t)

\* line 128: session_end = session_date + timedelta(hours=4)
SessionEnd(session_date) == session_date + BUFFER_HOURS

\* line 130: the session is happening now
InWindow(t, session_date) == t >= session_date /\ t <= SessionEnd(session_date)

\* lines 120-130: the slots of the event whose window holds t; NaT is skipped
LiveSlots(t, e) ==
    {i \in 1..NUM_SESSIONS : e.dates[i] # NaT /\ InWindow(t, e.dates[i])}

\* a loop that keeps going and returns the last slot that matches
LastLiveSlot(t, e) ==
    CHOOSE i \in LiveSlots(t, e) : \A j \in LiveSlots(t, e) : i >= j

\* the loop returns at the first slot that matches
FirstLiveSlot(t, e) ==
    CHOOSE i \in LiveSlots(t, e) : \A j \in LiveSlots(t, e) : i <= j

\* lines 135-144
LiveState(e, i) ==
    [year |-> e.year, round |-> e.round,
     session_name |-> e.names[i], session_type |-> e.names[i],
     start_time |-> IsoFormat(e.dates[i]),
     end_time |-> IsoFormat(SessionEnd(e.dates[i])),
     is_live |-> TRUE]

\* line 147: the event is within the next 2 days
EventSoon(t, e) == e.EventDate - t <= TWO_DAYS_HOURS

\* lines 148-156
UpcomingState(e) ==
    [year |-> e.year, round |-> e.round,
     session_name |-> <<"Next: ", e.names[1]>>, session_type |-> e.names[1],
     start_time |-> IF e.dates[1] # NaT THEN IsoFormat(e.dates[1]) ELSE None,
     is_live |-> FALSE]

\* What the calendar provider does during one detection:
\*   "ok"       every lookup answers
\*   "schedule" get_events_remaining raises
\*   "event"    get_event / get_session raises (reached only on a live match)
DetectFaults == {"ok", "schedule", "event"}

\* lines 100-161
DetectCurrentSession(t, cal, fault) ==
    IF fault = "schedule" THEN None
    ELSE LET current_schedule == EventsRemaining(t, cal) IN
         IF Len(current_schedule) = 0 THEN None
         ELSE LET nearest_event == current_schedule[1] IN
              IF LiveSlots(t, nearest_event) # {}
              THEN IF fault = "event" THEN None
                   ELSE LiveState(nearest_event, FirstLiveSlot(t, nearest_event))
              ELSE IF EventSoon(t, nearest_event)
                   THEN UpcomingState(nearest_event)
                   ELSE None

\* .get("is_live", False) on a session state that may be None
IsLive(s) == s # None /\ s.is_live

IsUpcoming(s) == s # None /\ ~s.is_live


(***************************************************************************)
(* Snapshot Cache: store_data / get_data over the Redis store              *)
(***************************************************************************)
SESSION_KEY == "session"
STANDINGS_KEY == "standings"
TIMING_KEY == "timing"
TIRES_KEY == "tires"
WEATHER_KEY == "weather"
STATUS_KEY == "status"
LAST_UPDATE_KEY == "last_update"

CategoryKeys == {STANDINGS_KEY, TIMING_KEY, TIRES_KEY, WEATHER_KEY, STATUS_KEY}
Keys == CategoryKeys \cup {SESSION_KEY, LAST_UPDATE_KEY}

\* a key that carries no time-to-live
NoExpiry == -1

\* json.dumps / json.loads: the record as text and back
JsonDumps(data) == [json |-> data]
JsonLoads(text) == text.json

\* redis SET key value: the value replaces the old one and its time-to-live
RedisSet(r, key, text) == [r EXCEPT ![key] = [val |-> text, ttl |-> NoExpiry]]

\* redis EXPIRE key seconds
RedisExpire(r, key, t, seconds) == [r EXCEPT ![key].ttl = t + seconds]

\* the store drops a key once its time-to-live has run out
RedisExpired(r, t) ==
    [k \in Keys |->
        IF r[k] # None /\ r[k].ttl # NoExpiry /\ r[k].ttl <= t THEN None
        ELSE r[k]]

\* Which of the store's operations raises during one store_data call:
\*   "ok" none, "set" the SET of the key (or the serialisation before it),
\*   "expire" the EXPIRE, "last_update" the SET of the timestamp
StoreFaults == {"ok", "set", "expire", "last_update"}

\* store_data giving every key the time-to-live, whatever the caller asks
StoreDataAlwaysExpiring(r, key, data, expire, t, fault) ==
    IF fault = "set" THEN [redis |-> r, ok |-> FALSE]
    ELSE LET r1 == RedisSet(r, key, JsonDumps(data)) IN
         IF fault = "expire" THEN [redis |-> r1, ok |-> FALSE]
         ELSE LET r2 == RedisExpire(r1, key, t, DATA_TTL) IN
              IF fault = "last_update" THEN [redis |-> r2, ok |-> FALSE]
              ELSE [redis |-> RedisSet(r2, LAST_UPDATE_KEY, IsoFormat(t)),
                    ok |-> TRUE]

\* store_data that leaves the last-update timestamp alone
StoreDataNoTimestamp(r, key, data, expire, t, fault) ==
    IF fault = "set" THEN [redis |-> r, ok |-> FALSE]
    ELSE LET r1 == RedisSet(r, key, JsonDumps(data)) IN
         IF expire /\ fault = "expire" THEN [redis |-> r1, ok |-> FALSE]
         ELSE LET r2 == IF expire THEN RedisExpire(r1, key, t, DATA_TTL) ELSE r1 IN
              IF fault = "last_update" THEN [redis |-> r2, ok |-> FALSE]
              ELSE [redis |-> r2, ok |-> TRUE]

\* store_data that blanks a key when handed the record the key holds
StoreDataOnce(r, key, data, expire, t, fault) ==
    IF fault = "set" THEN [redis |-> r, ok |-> FALSE]
    ELSE LET new == IF r[key] # None /\ r[key].val = JsonDumps(data)
                    THEN JsonDumps(None) ELSE JsonDumps(data)
             r1 == RedisSet(r, key, new) IN
         IF expire /\ fault = "expire" THEN [redis |-> r1, ok |-> FALSE]
         ELSE LET r2 == IF expire THEN RedisExpire(r1, key, t, DATA_TTL) ELSE r1 IN
              IF fault = "last_update" THEN [redis |-> r2, ok |-> FALSE]
              ELSE [redis |-> RedisSet(r2, LAST_UPDATE_KEY, IsoFormat(t)),
                    ok |-> TRUE]

\* lines 71-87: the store after the call, and the value returned
StoreData(r, key, data, expire, t, fault) ==
    IF fault = "set" THEN [redis |-> r, ok |-> FALSE]
    ELSE LET r1 == RedisSet(r, key, JsonDumps(data)) IN
         IF expire /\ fault = "expire" THEN [redis |-> r1, ok |-> FALSE]
         ELSE LET r2 == IF expire THEN RedisExpire(r1, key, t, DATA_TTL) ELSE r1 IN
              IF fault = "last_update" THEN [redis |-> r2, ok |-> FALSE]
              ELSE [redis |-> RedisSet(r2, LAST_UPDATE_KEY, IsoFormat(t)),
                    ok |-> TRUE]

\* get_data that answers from the key although the store fails
GetDataIgnoringFault(r, key, fails) ==
    IF r[key] = None THEN None ELSE JsonLoads(r[key].val)

\* lines 89-98: a missing key and a failing store both read as None
GetData(r, key, fails) ==
    IF fails THEN None
    ELSE IF r[key] = None THEN None
    ELSE JsonLoads(r[key].val)

(***************************************************************************)
(* Snapshot Transformer: RedisLiveDataService._process_live_session        *)
(***************************************************************************)
\* pandas NaN / NaT in a numeric, time or boolean column of the provider
NaN == -1
\* pandas NaN in a text column
NaNText == "NaN"
\* a numeric field no conversion accepts
Malformed == -2

\* pd.notna(x)
NotNa(x) == x # NaN
NotNaText(x) == x # NaNText

\* int(x), float(x), str(x), bool(x): the converted value with its JSON type
ToInt(x) == [int |-> x]
ToFloat(x) == [float |-> x]
ToStr(x) == [str |-> x]
ToBool(x) == [bool |-> x # 0]

\* a Python list / dict as a value that can stand where None can
List(rows) == [list |-> rows]
Dict(entries) == [dict |-> entries]

\* Python truthiness of a value read back from the store
Truthy(v) ==
    IF v = None THEN FALSE
    ELSE IF "list" \in DOMAIN v THEN Len(v.list) > 0
    ELSE IF "dict" \in DOMAIN v THEN DOMAIN v.dict # {}
    ELSE TRUE

\* the laps of one driver, in provider order (laps.pick_driver)
PickDriver(laps, abbr) == SelectSeq(laps, LAMBDA l : l.Driver = abbr)

\* a field raises in int() / float()
Raises(x) == x = Malformed

\* lines 216-229
StandingsRow(result) ==
    [position |-> IF NotNa(result.Position) THEN ToInt(result.Position) ELSE None,
     driver_number |-> ToStr(result.DriverNumber),
     driver_abbr |-> result.Abbreviation,
     points |-> IF NotNa(result.Points) THEN ToFloat(result.Points) ELSE None]

\* the standings rows in the reverse of the result order
StandingsReversed(session) ==
    List([i \in 1..Len(session.results) |->
             StandingsRow(session.results[Len(session.results) + 1 - i])])

\* lines 213-230
Standings(session) ==
    List([i \in 1..Len(session.results) |-> StandingsRow(session.results[i])])

StandingsRaises(session) ==
    \E i \in 1..Len(session.results) :
        Raises(session.results[i].Position) \/ Raises(session.results[i].Points)

\* lines 239-242: sort_values(by='LapNumber', ascending=False).iloc[0]
LastLap(driver_laps) ==
    LET n == CHOOSE i \in 1..Len(driver_laps) :
                 \A j \in 1..Len(driver_laps) :
                     driver_laps[j].LapNumber <= driver_laps[i].LapNumber
    IN driver_laps[n]

\* lines 244-255
TimingRow(abbr, last_lap) ==
    [driver_abbr |-> abbr,
     lap_number |-> IF NotNa(last_lap.LapNumber) THEN ToInt(last_lap.LapNumber) ELSE None,
     lap_time |-> IF NotNa(last_lap.LapTime) THEN ToStr(last_lap.LapTime) ELSE None,
     compound |-> IF NotNaText(last_lap.Compound) THEN last_lap.Compound ELSE NaNText,
     tyre_life |-> IF NotNa(last_lap.TyreLife) THEN ToFloat(last_lap.TyreLife) ELSE None]

\* lines 236-256: the drivers of the result set that have a lap, in result order
Timing(session) ==
    LET with_laps == SelectSeq(session.results,
                         LAMBDA r : Len(PickDriver(session.laps, r.Abbreviation)) > 0)
    IN List([i \in 1..Len(with_laps) |->
                TimingRow(with_laps[i].Abbreviation,
                          LastLap(PickDriver(session.laps, with_laps[i].Abbreviation)))])

\* int() / float() of the selected lap's fields (lines 246, 253)
TimingRaises(session) ==
    \E i \in 1..Len(session.results) :
        LET driver_laps == PickDriver(session.laps, session.results[i].Abbreviation)
        IN Len(driver_laps) > 0 /\ Raises(LastLap(driver_laps).TyreLife)

\* line 267: the highest stint of the driver's laps
CurrentStint(driver_laps) ==
    LET stints == {driver_laps[i].Stint : i \in 1..Len(driver_laps)} \ {NaN}
    IN IF stints = {} THEN 0
       ELSE CHOOSE m \in stints : \A x \in stints : x <= m

\* lines 271-276
TireData(current_tires) ==
    LET lives == {current_tires[i].TyreLife : i \in 1..Len(current_tires)} \ {NaN}
    IN [compound |-> IF NotNaText(current_tires[1].Compound)
                     THEN current_tires[1].Compound ELSE NaNText,
        life |-> IF lives = {} THEN None
                 ELSE ToFloat(CHOOSE m \in lives : \A x \in lives : x <= m),
        age |-> Len(current_tires),
        fresh |-> IF NotNa(current_tires[1].FreshTyre)
                  THEN ToBool(current_tires[1].FreshTyre) ELSE None]

\* line 268
StintLaps(driver_laps) ==
    SelectSeq(driver_laps, LAMBDA l : l.Stint = CurrentStint(driver_laps))

\* lines 262-277: a dict keyed by driver abbreviation
Tires(session) ==
    LET abbrs == {session.results[i].Abbreviation : i \in 1..Len(session.results)}
        have == {a \in abbrs : Len(StintLaps(PickDriver(session.laps, a))) > 0}
    IN Dict([a \in have |-> TireData(StintLaps(PickDriver(session.laps, a)))])

\* float(current_tires['TyreLife'].max()) over the laps of the stint (line 273)
TiresRaises(session) ==
    \E i \in 1..Len(session.results) :
        LET current_tires == StintLaps(PickDriver(session.laps,
                                                  session.results[i].Abbreviation))
        IN \E j \in 1..Len(current_tires) : Raises(current_tires[j].TyreLife)

\* a translation that drops the code of a status it does not know
TranslateTrackStatusNoCode(status) ==
    CASE status = "1" -> "Track Clear"
      [] status = "2" -> "Yellow Flag"
      [] status = "3" -> "Safety Car Deployed"
      [] status = "4" -> "Red Flag/Session Stopped"
      [] status = "5" -> "Virtual Safety Car Deployed"
      [] status = "6" -> "Virtual Safety Car Ending"
      [] OTHER -> <<"Unknown Status: ", "?">>

\* lines 317-328
TranslateTrackStatus(status) ==
    CASE status = "1" -> "Track Clear"
      [] status = "2" -> "Yellow Flag"
      [] status = "3" -> "Safety Car Deployed"
      [] status = "4" -> "Red Flag/Session Stopped"
      [] status = "5" -> "Virtual Safety Car Deployed"
      [] status = "6" -> "Virtual Safety Car Ending"
      [] OTHER -> <<"Unknown Status: ", status>>

\* lines 284-295: the latest reading
WeatherData(latest_weather) ==
    [air_temp |-> IF NotNa(latest_weather.AirTemp)
                  THEN ToFloat(latest_weather.AirTemp) ELSE None,
     rainfall |-> IF NotNa(latest_weather.Rainfall)
                  THEN ToBool(latest_weather.Rainfall) ELSE ToBool(0),
     timestamp |-> IsoFormat(latest_weather.Time)]

\* lines 302-308
StatusData(latest_status) ==
    [status |-> latest_status.Status,
     status_message |-> TranslateTrackStatus(latest_status.Status),
     timestamp |-> IsoFormat(latest_status.Time)]

\* lines 283-311: the optional categories, each stored when the provider has
\* a reading
OptionalWrites(session) ==
    (IF Len(session.weather_data) > 0
     THEN <<[key |-> WEATHER_KEY,
             data |-> WeatherData(session.weather_data[Len(session.weather_data)])]>>
     ELSE <<>>) \o
    (IF Len(session.track_status) > 0
     THEN <<[key |-> STATUS_KEY,
             data |-> StatusData(session.track_status[Len(session.track_status)])]>>
     ELSE <<>>)

\* the store_data calls of one _process_live_session, in program order; an
\* exception while a category is built ends the method before its store
ProcessWrites(session) ==
    IF StandingsRaises(session) THEN <<>>
    ELSE <<[key |-> STANDINGS_KEY, data |-> Standings(session)]>> \o
         (IF TimingRaises(session) THEN <<>>
          ELSE <<[key |-> TIMING_KEY, data |-> Timing(session)]>> \o
               (IF TiresRaises(session) THEN <<>>
                ELSE <<[key |-> TIRES_KEY, data |-> Tires(session)]>> \o
                     OptionalWrites(session)))

\* the store after the first n writes, faults[i] deciding how write i goes
RECURSIVE ApplyWrites(_, _, _, _, _)
ApplyWrites(r, writes, faults, t, n) ==
    IF n = 0 THEN r
    ELSE StoreData(ApplyWrites(r, writes, faults, t, n - 1),
                   writes[n].key, writes[n].data, TRUE, t, faults[n]).redis

\* lines 209-315
ProcessLiveSession(r, session, t, faults) ==
    ApplyWrites(r, ProcessWrites(session), faults, t, Len(ProcessWrites(session)))


(***************************************************************************)
(* Poll Scheduler: start_polling, stop_polling, _polling_loop,             *)
(* poll_live_data                                                          *)
(***************************************************************************)
ThreadIds == 1..MaxThreads
NoThread == 0

\* the callers of start_polling
Callers == {"c1", "c2"}

\* threading.Thread.is_alive()
IsAlive(t) == tpc[t] \notin {"unborn", "dead"}

FreeThreads == {t \in ThreadIds : ~IsAlive(t)}

\* a poll cycle that has done nothing yet
\* (touched: what of the store the cycle has changed so far; after_error:
\* the cycle before it ended in a provider error or a session without laps)
NewCycle ==
    [det |-> "none", pub |-> "na", idled |-> FALSE, fetched |-> FALSE, wrote |-> FALSE,
     touched |-> {}, after_error |-> FALSE]

\* what differs between two states of the store: a category record, the
\* session entry, the last-update timestamp
Changed(r1, r2) ==
    {"category" : k \in {k \in CategoryKeys : r1[k] # r2[k]}}
    \cup {k \in {SESSION_KEY, LAST_UPDATE_KEY} : r1[k] # r2[k]}

\* lines 185-187: what identifies the session to load
LoadKey(s) == [year |-> s.year, round |-> s.round, session_name |-> s.session_type]

\* what start_polling and stop_polling leave to their callers
AlreadyActive == [op |-> "start_polling", result |-> "already_active"]

PollingStarted == [op |-> "start_polling", result |-> "started"]

StoppedWithoutThread == [op |-> "stop_polling", joined |-> TRUE]

\* line 332: start_polling finds the loop thread alive and returns
StartCheck(c) ==
    /\ startPc[c] = "idle"
    /\ IF polling_thread # NoThread /\ IsAlive(polling_thread)
       THEN /\ ret' = AlreadyActive
            /\ UNCHANGED startPc
       ELSE /\ startPc' = [startPc EXCEPT ![c] = "create"]
            /\ ret' = None
    /\ UNCHANGED <<now, calendar, sqlite, redis, polling_active, polling_thread,
                   current_session, tpc, tload, cyc, stopPc, stopped>>

\* lines 336-341: the flag is raised and a new loop thread started
StartCreate(c) ==
    /\ startPc[c] = "create"
    /\ FreeThreads # {}
    /\ LET t == CHOOSE x \in FreeThreads : \A y \in FreeThreads : x <= y IN
          /\ polling_active' = TRUE
          /\ polling_thread' = t
          /\ tpc' = [tpc EXCEPT ![t] = "loop"]
          /\ tload' = [tload EXCEPT ![t] = None]
          /\ cyc' = [cyc EXCEPT ![t] = NewCycle]
    /\ startPc' = [startPc EXCEPT ![c] = "idle"]
    /\ stopped' = "no"
    /\ ret' = PollingStarted
    /\ UNCHANGED <<now, calendar, sqlite, redis, current_session, stopPc>>

\* line 345-347: the flag is lowered; with a thread to join the caller waits
StopSet ==
    /\ stopPc = "idle"
    /\ polling_active' = FALSE
    /\ IF polling_thread # NoThread
       THEN /\ stopPc' = "join"
            /\ stopped' = "stopping"
            /\ ret' = None
       ELSE /\ stopPc' = "idle"
            /\ stopped' = "yes"
            /\ ret' = StoppedWithoutThread
    /\ UNCHANGED <<now, calendar, sqlite, redis, polling_thread, current_session,
                   tpc, tload, cyc, startPc>>

\* line 348: join(timeout=10) returns, the thread finished or not
StopJoin ==
    /\ stopPc = "join"
    /\ stopPc' = "idle"
    /\ stopped' = IF stopped = "stopping" THEN "yes" ELSE stopped
    /\ ret' = [op |-> "stop_polling", joined |-> ~IsAlive(polling_thread)]
    /\ UNCHANGED <<now, calendar, sqlite, redis, polling_active, polling_thread,
                   current_session, tpc, tload, cyc, startPc>>

\* a loop that never looks at the flag
LoopContinuesAlways == TRUE

\* line 354: the loop condition
LoopContinues == polling_active

\* line 354: while self.polling_active
LoopCheck(t) ==
    /\ tpc[t] = "loop"
    /\ IF LoopContinues
       THEN /\ tpc' = [tpc EXCEPT ![t] = "poll"]
            /\ cyc' = [cyc EXCEPT ![t] =
                          [NewCycle EXCEPT !.after_error =
                              cyc[t].fetched /\ ~cyc[t].wrote]]
       ELSE /\ tpc' = [tpc EXCEPT ![t] = "dead"]
            /\ UNCHANGED cyc
    /\ ret' = None
    /\ UNCHANGED <<now, calendar, sqlite, redis, polling_active, polling_thread,
                   current_session, tload, startPc, stopPc, stopped>>

\* line 166: detection is needed
NeedsDetection(s) == ~IsLive(s)

\* a poll cycle that loads from the provider whatever was detected
AlwaysFetch(s) == "fetch"

\* where poll_live_data goes after publishing the detected state
\* (lines 170-182): on to the provider, or into the idle sleep
AfterDetection(s) == IF IsLive(s) THEN "fetch" ELSE "idle"

\* lines 166-187: detect and publish when no live session is held, then
\* either idle or go on to load the live session
PollBegin(t, dfault, sfault) ==
    /\ tpc[t] = "poll"
    /\ IF NeedsDetection(current_session)
       THEN LET s == DetectCurrentSession(now, calendar, dfault)
                st == StoreData(redis, SESSION_KEY, s, FALSE, now, sfault)
            IN /\ current_session' = s
               /\ redis' = st.redis
               /\ tpc' = [tpc EXCEPT ![t] = AfterDetection(s)]
               /\ tload' = [tload EXCEPT ![t] =
                               IF AfterDetection(s) = "fetch" THEN LoadKey(s)
                               ELSE None]
               /\ cyc' = [cyc EXCEPT ![t].det = IF IsLive(s) THEN "live" ELSE "idle",
                                     ![t].pub = IF st.ok THEN "ok" ELSE "failed",
                                     ![t].touched = Changed(redis, st.redis)]
       ELSE /\ tpc' = [tpc EXCEPT ![t] = "fetch"]
            /\ tload' = [tload EXCEPT ![t] = LoadKey(current_session)]
            /\ cyc' = [cyc EXCEPT ![t].det = "skipped"]
            /\ UNCHANGED <<current_session, redis>>
    /\ ret' = None
    /\ UNCHANGED <<now, calendar, sqlite, polling_active, polling_thread,
                   startPc, stopPc, stopped>>

\* line 181: time.sleep(300) ends and poll_live_data returns
IdleSleep(t) ==
    /\ tpc[t] = "idle"
    /\ tpc' = [tpc EXCEPT ![t] = "sleep"]
    /\ cyc' = [cyc EXCEPT ![t].idled = TRUE]
    /\ ret' = None
    /\ UNCHANGED <<now, calendar, sqlite, redis, polling_active, polling_thread,
                   current_session, tload, startPc, stopPc, stopped>>

\* session.load raises
LoadError == [raises |-> TRUE]

\* line 197: the loaded session has no laps
HasNoLaps(session) == Len(session.laps) = 0

\* lines 192-199: the load raises or the session has no laps, and the
\* cycle ends without processing
FetchFails(outcome) == outcome = LoadError \/ HasNoLaps(outcome)

\* a failed load that blanks the category records
FetchResultBlanking(r, outcome, t, faults) ==
    IF FetchFails(outcome)
    THEN [k \in Keys |-> IF k \in CategoryKeys THEN None ELSE r[k]]
    ELSE ProcessLiveSession(r, outcome, t, faults)

\* lines 190-205: the store after the load and the processing of its data
FetchResult(r, outcome, t, faults) ==
    IF FetchFails(outcome) THEN r
    ELSE ProcessLiveSession(r, outcome, t, faults)

\* a provider error that ends the loop thread
FetchErrorFatal(outcome) == IF FetchFails(outcome) THEN "dead" ELSE "sleep"

\* lines 199, 204-207 and 356-357: poll_live_data returns to the loop, which
\* sleeps, whatever the load did
AfterFetch(outcome) == "sleep"

\* lines 190-205: the provider load returns; data is transformed and stored,
\* an error or a session without laps ends the cycle
PollFetch(t, outcome, faults) ==
    /\ tpc[t] = "fetch"
    /\ redis' = FetchResult(redis, outcome, now, faults)
    /\ cyc' = [cyc EXCEPT ![t].fetched = TRUE,
                          ![t].wrote = ~FetchFails(outcome),
                          ![t].touched = @ \cup Changed(redis, redis')]
    /\ tpc' = [tpc EXCEPT ![t] = AfterFetch(outcome)]
    /\ tload' = [tload EXCEPT ![t] = None]
    /\ ret' = None
    /\ UNCHANGED <<now, calendar, sqlite, polling_active, polling_thread,
                   current_session, startPc, stopPc, stopped>>

\* line 357: time.sleep(self.polling_interval) ends
CycleSleep(t) ==
    /\ tpc[t] = "sleep"
    /\ tpc' = [tpc EXCEPT ![t] = "loop"]
    /\ ret' = None
    /\ UNCHANGED <<now, calendar, sqlite, redis, polling_active, polling_thread,
                   current_session, tload, cyc, startPc, stopPc, stopped>>

\* an hour passes; the store drops what has expired
Tick ==
    /\ now < MaxTime
    /\ now' = now + 1
    /\ redis' = RedisExpired(redis, now + 1)
    /\ ret' = None
    /\ UNCHANGED <<calendar, sqlite, procVars>>

\* the state of a freshly constructed service (lines 58-61)
InitProcess ==
    /\ polling_active = FALSE
    /\ polling_thread = NoThread
    /\ current_session = None
    /\ tpc = [t \in ThreadIds |-> "unborn"]
    /\ tload = [t \in ThreadIds |-> None]
    /\ cyc = [t \in ThreadIds |-> NewCycle]
    /\ startPc = [c \in Callers |-> "idle"]
    /\ stopPc = "idle"
    /\ stopped = "no"

\* the server process ends (its daemon threads with it) and is started
\* again; the Redis store lives on
Restart ==
    /\ polling_active' = FALSE
    /\ polling_thread' = NoThread
    /\ current_session' = None
    /\ tpc' = [t \in ThreadIds |-> "unborn"]
    /\ tload' = [t \in ThreadIds |-> None]
    /\ cyc' = [t \in ThreadIds |-> NewCycle]
    /\ startPc' = [c \in Callers |-> "idle"]
    /\ stopPc' = "idle"
    /\ stopped' = "no"
    /\ ret' = None
    /\ UNCHANGED <<now, calendar, sqlite, redis>>

(***************************************************************************)
(* Ingestion into the historical store: migrate_results and migrate_laps   *)
(* of src/backend/migrate_sqlite.py                                        *)
(***************************************************************************)
\* the tables, as sets of rows, start empty; began and finished remember
\* for which <<table, session_id>> a run has started and has run to its end
EmptyDb == [results |-> {}, laps |-> {}, began |-> {}, finished |-> {}]

\* the drivers table of the year, abbreviation to id (lines 888-889)
DriverMap == [a \in {"VER", "HAM"} |-> IF a = "VER" THEN 1 ELSE 2]

\* driver_map.get(abbr): 0 stands for the None of a driver that is not found
DriverId(abbr) == IF abbr \in DOMAIN DriverMap THEN DriverMap[abbr] ELSE 0

\* result_exists that looks at the session alone
ResultExistsBySession(table, session_id, driver_id) ==
    \E row \in table : row.session_id = session_id

\* lines 472-482
ResultExists(table, session_id, driver_id) ==
    \E row \in table : row.session_id = session_id /\ row.driver_id = driver_id

\* lines 516-526
LapExists(table, session_id, driver_id, lap_number) ==
    \E row \in table :
        /\ row.session_id = session_id /\ row.driver_id = driver_id
        /\ row.lap_number = lap_number

\* lines 898-910
ResultData(result, session_id, driver_id) ==
    [session_id |-> session_id, driver_id |-> driver_id,
     position |-> IF NotNa(result.Position) THEN ToInt(result.Position) ELSE None,
     points |-> IF NotNa(result.Points) THEN ToFloat(result.Points) ELSE None]

\* lines 1825-1831
LapData(lap, session_id, driver_id) ==
    [session_id |-> session_id, driver_id |-> driver_id,
     lap_number |-> lap.LapNumber,
     lap_time |-> IF NotNa(lap.LapTime) THEN ToStr(lap.LapTime) ELSE None,
     tyre_life |-> IF NotNa(lap.TyreLife) THEN ToFloat(lap.TyreLife) ELSE None]

\* lines 484-514: INSERT INTO results; UNIQUE(session_id, driver_id)
\* (line 136) makes the insert of a second row of the key raise
CreateResult(table, result_data) ==
    IF ResultExists(table, result_data.session_id, result_data.driver_id)
    THEN [table |-> table, raised |-> TRUE]
    ELSE [table |-> table \cup {result_data}, raised |-> FALSE]

\* lines 528-551: INSERT INTO laps; UNIQUE(session_id, driver_id, lap_number)
\* (line 177)
CreateLap(table, lap_data) ==
    IF LapExists(table, lap_data.session_id, lap_data.driver_id, lap_data.lap_number)
    THEN [table |-> table, raised |-> TRUE]
    ELSE [table |-> table \cup {lap_data}, raised |-> FALSE]

\* lines 891-917: the loop over the first n rows of the result set; the
\* database raises at the row numbered fail_at (0: never), a field that
\* does not convert raises too, and an exception ends the run
RECURSIVE MigrateResultRows(_, _, _, _, _)
MigrateResultRows(table, results, session_id, n, fail_at) ==
    IF n = 0 THEN [table |-> table, raised |-> FALSE, inserted |-> 0]
    ELSE LET prev == MigrateResultRows(table, results, session_id, n - 1, fail_at)
             result == results[n]
             driver_id == DriverId(result.Abbreviation)
         IN IF prev.raised \/ driver_id = 0 THEN prev
            ELSE IF Raises(result.Position) \/ Raises(result.Points) \/ n = fail_at
            THEN [prev EXCEPT !.raised = TRUE]
            ELSE IF ResultExists(prev.table, session_id, driver_id) THEN prev
            ELSE LET made == CreateResult(prev.table,
                                          ResultData(result, session_id, driver_id))
                 IN [table |-> made.table, raised |-> made.raised,
                     inserted |-> IF made.raised THEN prev.inserted
                                  ELSE prev.inserted + 1]

\* lines 1812-1875: the loop over the first n laps; a lap without a number
\* is skipped
RECURSIVE MigrateLapRows(_, _, _, _, _)
MigrateLapRows(table, laps, session_id, n, fail_at) ==
    IF n = 0 THEN [table |-> table, raised |-> FALSE, inserted |-> 0]
    ELSE LET prev == MigrateLapRows(table, laps, session_id, n - 1, fail_at)
             lap == laps[n]
             driver_id == DriverId(lap.Driver)
         IN IF prev.raised \/ driver_id = 0 \/ ~NotNa(lap.LapNumber) THEN prev
            ELSE IF Raises(lap.TyreLife) \/ n = fail_at
            THEN [prev EXCEPT !.raised = TRUE]
            ELSE IF LapExists(prev.table, session_id, driver_id, lap.LapNumber)
            THEN prev
            ELSE LET made == CreateLap(prev.table, LapData(lap, session_id, driver_id))
                 IN [table |-> made.table, raised |-> made.raised,
                     inserted |-> IF made.raised THEN prev.inserted
                                  ELSE prev.inserted + 1]

\* lines 881-917: one run of migrate_results for a session; ret tells what
\* the run did (kept: every row of before the run is still there) and
\* whether runs for the session came before it
MigrateResults(session, session_id, fail_at) ==
    LET run == IF Len(session.results) = 0
               THEN [table |-> sqlite.results, raised |-> FALSE, inserted |-> 0]
               ELSE MigrateResultRows(sqlite.results, session.results, session_id,
                                      Len(session.results), fail_at)
        id == <<"results", session_id>>
    IN /\ sqlite' = [sqlite EXCEPT
                        !.results = run.table,
                        !.began = @ \cup {id},
                        !.finished = IF run.raised THEN @ ELSE @ \cup {id}]
       /\ ret' = [op |-> "migrate_results", session |-> session,
                  session_id |-> session_id, raised |-> run.raised,
                  inserted |-> run.inserted,
                  kept |-> sqlite.results \subseteq run.table,
                  again |-> id \in sqlite.began,
                  after_finished |-> id \in sqlite.finished]
       /\ UNCHANGED <<now, calendar, redis, procVars>>

\* lines 1798-1875: one run of migrate_laps for a session
MigrateLaps(session, session_id, fail_at) ==
    LET run == IF Len(session.laps) = 0
               THEN [table |-> sqlite.laps, raised |-> FALSE, inserted |-> 0]
               ELSE MigrateLapRows(sqlite.laps, session.laps, session_id,
                                   Len(session.laps), fail_at)
        id == <<"laps", session_id>>
    IN /\ sqlite' = [sqlite EXCEPT
                        !.laps = run.table,
                        !.began = @ \cup {id},
                        !.finished = IF run.raised THEN @ ELSE @ \cup {id}]
       /\ ret' = [op |-> "migrate_laps", session |-> session,
                  session_id |-> session_id, raised |-> run.raised,
                  inserted |-> run.inserted,
                  kept |-> sqlite.laps \subseteq run.table,
                  again |-> id \in sqlite.began,
                  after_finished |-> id \in sqlite.finished]
       /\ UNCHANGED <<now, calendar, redis, procVars>>

(***************************************************************************)
(* The running system                                                      *)
(***************************************************************************)
\* one race weekend: Practice 1 starts at hour 1, the event is dated hour 6
MainCalendar == <<Event(2024, 1, 6, <<1, NaT, NaT, NaT, NaT>>)>>

Result(abbr, number, position, points) ==
    [Abbreviation |-> abbr, DriverNumber |-> number,
     Position |-> position, Points |-> points]

Lap(driver, number, time, stint, compound, life, fresh) ==
    [Driver |-> driver, LapNumber |-> number, LapTime |-> time, Stint |-> stint,
     Compound |-> compound, TyreLife |-> life, FreshTyre |-> fresh]

\* two competitors with laps, a weather reading and a track status
DataFull ==
    [results |-> <<Result("VER", 1, 1, 25), Result("HAM", 44, 2, NaN)>>,
     laps |-> <<Lap("VER", 1, 90, 1, "SOFT", 1, 1),
                Lap("VER", 2, NaN, 1, "SOFT", 2, 1),
                Lap("HAM", 1, 91, 1, "HARD", 1, 0)>>,
     weather_data |-> <<[AirTemp |-> 20, Rainfall |-> 0, Time |-> 1]>>,
     track_status |-> <<[Status |-> "1", Time |-> 1], [Status |-> "4", Time |-> 2]>>]

\* laps on track before the result set lists anyone
DataNoResults ==
    [results |-> <<>>,
     laps |-> <<Lap("VER", 1, NaN, 1, "SOFT", 1, 1)>>,
     weather_data |-> <<>>,
     track_status |-> <<>>]

\* the session exists at the provider but has not started
DataNotStarted ==
    [results |-> <<>>, laps |-> <<>>, weather_data |-> <<>>, track_status |-> <<>>]

MainData == {DataFull, DataNoResults, DataNotStarted}

\* how the stores of one cycle go: the store answers every call, or it is
\* down for all of them
StoreUp == [i \in 1..Cardinality(CategoryKeys) |-> "ok"]
StoreDown == [i \in 1..Cardinality(CategoryKeys) |-> "set"]

Init ==
    /\ now = 0
    /\ calendar = MainCalendar
    /\ sqlite = EmptyDb
    /\ redis = [k \in Keys |-> None]
    /\ InitProcess
    /\ ret = None

\* the request layer starts and stops polling from one thread
Next ==
    \/ StartCheck("c1")
    \/ StartCreate("c1")
    \/ StopSet
    \/ StopJoin
    \/ \E t \in ThreadIds : LoopCheck(t)
    \/ \E t \in ThreadIds, dfault \in DetectFaults,
          sfault \in StoreFaults \ {"expire"} : PollBegin(t, dfault, sfault)
    \/ \E t \in ThreadIds : IdleSleep(t)
    \/ \E t \in ThreadIds, outcome \in {LoadError} \cup MainData,
          faults \in {StoreUp, StoreDown} : PollFetch(t, outcome, faults)
    \/ \E t \in ThreadIds : CycleSleep(t)
    \/ Tick
    \/ Restart

Spec == Init /\ [][Next]_vars

\* scheduling of a loop thread: a runnable thread runs, a sleep ends and a
\* provider load returns
ThreadStep(t) ==
    \/ LoopCheck(t)
    \/ \E dfault \in DetectFaults, sfault \in StoreFaults \ {"expire"} :
          PollBegin(t, dfault, sfault)
    \/ IdleSleep(t)
    \/ \E outcome \in {LoadError} \cup MainData, faults \in {StoreUp, StoreDown} :
          PollFetch(t, outcome, faults)
    \/ CycleSleep(t)

FairSpec == Init /\ [][Next]_vars /\ \A t \in ThreadIds : WF_vars(ThreadStep(t))

(***************************************************************************)
(* The control flow of the loop on its own, fairly scheduled: the store    *)
(* answers every call, the provider load raises, finds no laps or yields   *)
(* data, and polling is started and stopped from one thread                *)
(***************************************************************************)
LoopOutcomes == {LoadError, DataNotStarted, DataFull}

LoopStep(t) ==
    \/ LoopCheck(t)
    \/ \E dfault \in DetectFaults : PollBegin(t, dfault, "ok")
    \/ IdleSleep(t)
    \/ \E outcome \in LoopOutcomes : PollFetch(t, outcome, StoreUp)
    \/ CycleSleep(t)

NextLoop ==
    \/ StartCheck("c1")
    \/ StartCreate("c1")
    \/ StopSet
    \/ StopJoin
    \/ \E t \in ThreadIds : LoopStep(t)
    \/ Tick
    \/ Restart

FairLoop == Init /\ [][NextLoop]_vars /\ \A t \in ThreadIds : WF_vars(LoopStep(t))

(***************************************************************************)
(* Start and stop requests from concurrent callers, the clock standing     *)
(* still and the store answering                                           *)
(***************************************************************************)
InitThreads ==
    /\ now \in {0, 1}
    /\ calendar = MainCalendar
    /\ sqlite = EmptyDb
    /\ redis = [k \in Keys |-> None]
    /\ InitProcess
    /\ ret = None

NextThreads ==
    \/ \E c \in Callers : StartCheck(c)
    \/ \E c \in Callers : StartCreate(c)
    \/ StopSet
    \/ StopJoin
    \/ \E t \in ThreadIds : LoopCheck(t)
    \/ \E t \in ThreadIds, dfault \in DetectFaults : PollBegin(t, dfault, "ok")
    \/ \E t \in ThreadIds : IdleSleep(t)
    \/ \E t \in ThreadIds, outcome \in {LoadError, DataFull} :
          PollFetch(t, outcome, StoreUp)
    \/ \E t \in ThreadIds : CycleSleep(t)

SpecThreads == InitThreads /\ [][NextThreads]_vars

(***************************************************************************)
(* Unified Read Facade: F1DataService.get_driver_standings                 *)
(***************************************************************************)
Years == {2024, 2025}

\* the rows the historical query yields, per year (data_service.py 292-316)
HistoricalRow(position, driver_id, points) ==
    [position |-> position, driver_id |-> driver_id, points |-> points]

HistoricalStandings(year) ==
    IF year = 2024
    THEN <<HistoricalRow(1, 33, 400), HistoricalRow(2, 44, 300)>>
    ELSE <<>>

\* What the historical store does during one call:
\*   "ok" the query answers, "nocursor" no connection can be opened,
\*   "sqlerror" the query raises sqlite3.Error
DbFaults == {"ok", "nocursor", "sqlerror"}

\* Which read of the cache fails during one call: none, that of the session
\* entry (or the service is missing), or that of the category record
CacheFaults == {"ok", "session", "data"}

\* data_service.py 85-89
GetCurrentSession(r, cache) == GetData(r, SESSION_KEY, cache = "session")

\* data_service.py 285: a session is cached and it is of the requested year
SessionMatches(session, year) == Truthy(session) /\ session.year = year

\* data_service.py 290-319: the historical query, [] on an error
QueryStandings(year, db) ==
    IF db = "sqlerror" THEN List(<<>>) ELSE List(HistoricalStandings(year))

\* a facade that appends the historical rows to the live ones
DriverStandingsMerged(r, year, db, cache) ==
    IF db = "nocursor" THEN List(<<>>)
    ELSE LET session == GetCurrentSession(r, cache)
             live_standings == GetData(r, STANDINGS_KEY, cache = "data")
         IN IF SessionMatches(session, year) /\ Truthy(live_standings)
            THEN List(live_standings.list \o QueryStandings(year, db).list)
            ELSE QueryStandings(year, db)

\* data_service.py 277-319
DriverStandings(r, year, db, cache) ==
    IF db = "nocursor" THEN List(<<>>)
    ELSE LET session == GetCurrentSession(r, cache)
             live_standings == GetData(r, STANDINGS_KEY, cache = "data")
         IN IF SessionMatches(session, year) /\ Truthy(live_standings)
            THEN live_standings
            ELSE QueryStandings(year, db)

GetDriverStandings(year, db, cache) ==
    /\ ret' = [op |-> "get_driver_standings", year |-> year, db |-> db,
               cache |-> cache, result |-> DriverStandings(redis, year, db, cache)]
    /\ UNCHANGED <<now, calendar, sqlite, redis, procVars>>

\* the sessions of the historical store a caller can ask for, by id: the
\* Practice 1 the schedule holds, and a race of the year before
SessionIds == {101, 102}

SessionOf(session_id) ==
    IF session_id = 101
    THEN [year |-> 2024, round |-> 1, session_type |-> "Practice 1"]
    ELSE [year |-> 2023, round |-> 5, session_type |-> "Race"]

\* the rows of the weather table, per session (data_service.py 527-547)
HistoricalWeather(session_id) ==
    IF session_id = 101 THEN <<>>
    ELSE <<[time |-> 0, air_temp |-> 18, rainfall |-> [bool |-> FALSE]],
           [time |-> 1, air_temp |-> 19, rainfall |-> [bool |-> TRUE]]>>

\* data_service.py 526-551: the historical query, [] on an error
QueryWeather(session_id, db) ==
    IF db = "sqlerror" THEN List(<<>>) ELSE List(HistoricalWeather(session_id))

\* data_service.py 512-551
Weather(r, session_id, db, cache) ==
    IF db = "nocursor" THEN List(<<>>)
    ELSE LET session == GetCurrentSession(r, cache)
             live_weather == GetData(r, WEATHER_KEY, cache = "data")
         IN IF Truthy(session) /\ Truthy(live_weather)
            THEN List(<<live_weather>>)
            ELSE QueryWeather(session_id, db)

GetWeather(session_id, db, cache) ==
    /\ ret' = [op |-> "get_weather", session_id |-> session_id, db |-> db,
               cache |-> cache, result |-> Weather(redis, session_id, db, cache)]
    /\ UNCHANGED <<now, calendar, sqlite, redis, procVars>>

\* the system with requests reading through the facade
NextRead ==
    \/ StartCheck("c1")
    \/ StartCreate("c1")
    \/ \E t \in ThreadIds : ThreadStep(t)
    \/ Tick
    \/ Restart
    \/ \E year \in Years, db \in DbFaults, cache \in CacheFaults :
          GetDriverStandings(year, db, cache)
    \/ \E session_id \in SessionIds, db \in DbFaults, cache \in CacheFaults :
          GetWeather(session_id, db, cache)

SpecRead == Init /\ [][NextRead]_vars

(***************************************************************************)
(* The Snapshot Cache on its own: store_data, get_data and get_last_update *)
(* called with the arguments the program passes, each operation of the     *)
(* store failing or not, and time passing                                  *)
(***************************************************************************)
\* redis_live_service.py 362-371: the raw timestamp, None when it is missing
\* or the store fails
GetLastUpdate(r, fails) ==
    IF fails THEN None
    ELSE IF r[LAST_UPDATE_KEY] = None THEN None
    ELSE r[LAST_UPDATE_KEY].val

\* the weather record of a reading taken at hour t
WeatherAt(t) == WeatherData([AirTemp |-> 20, Rainfall |-> 0, Time |-> t])

\* the calls of store_data the program makes: the publishing of a session
\* state with expire=False (lines 174, 177) and the writing of a category
\* record with the default expire=True (lines 233-311)
StoreArgs(t) ==
    {[key |-> SESSION_KEY, data |-> s, expire |-> FALSE] :
        s \in {None, LiveState(MainCalendar[1], 1)}}
    \cup {[key |-> STANDINGS_KEY, data |-> d, expire |-> TRUE] :
        d \in {List(<<>>), Standings(DataFull)}}
    \cup {[key |-> WEATHER_KEY, data |-> WeatherAt(t), expire |-> TRUE]}

\* one call of store_data; ret keeps what the caller and an observer of the
\* store saw: the entry of the key and the value read from it before the
\* call, the keys whose entry the call changed, and whether the call repeats
\* the successful call right before it
StoreCall(a, fault) ==
    LET st == StoreData(redis, a.key, a.data, a.expire, now, fault) IN
    /\ redis' = st.redis
    /\ ret' = [op |-> "store_data", key |-> a.key, data |-> a.data,
               expire |-> a.expire, fault |-> fault, ok |-> st.ok, at |-> now,
               before |-> redis[a.key],
               seen |-> GetData(redis, a.key, FALSE),
               changed |-> {k \in Keys : redis[k] # st.redis[k]},
               repeat |-> /\ ret # None /\ ret.op = "store_data" /\ ret.ok
                          /\ ret.key = a.key /\ ret.data = a.data]
    /\ UNCHANGED <<now, calendar, sqlite, procVars>>

GetCall(key, fails) ==
    /\ ret' = [op |-> "get_data", key |-> key, fails |-> fails,
               result |-> GetData(redis, key, fails)]
    /\ UNCHANGED <<now, calendar, sqlite, redis, procVars>>

GetLastUpdateCall(fails) ==
    /\ ret' = [op |-> "get_last_update", fails |-> fails,
               result |-> GetLastUpdate(redis, fails)]
    /\ UNCHANGED <<now, calendar, sqlite, redis, procVars>>

StoreKeys == {SESSION_KEY, STANDINGS_KEY, WEATHER_KEY}

NextStore ==
    \/ \E a \in StoreArgs(now), fault \in StoreFaults : StoreCall(a, fault)
    \/ \E key \in StoreKeys, fails \in BOOLEAN : GetCall(key, fails)
    \/ \E fails \in BOOLEAN : GetLastUpdateCall(fails)
    \/ Tick

SpecStore == Init /\ [][NextStore]_vars

(***************************************************************************)
(* The read facade over the cache on its own: the records are put by       *)
(* store_data with the arguments the program passes, and requests read     *)
(* through get_data, get_last_update, get_driver_standings and get_weather *)
(* with the cache or the historical store failing or not                   *)
(***************************************************************************)
\* the records the loop puts while Practice 1 is live, and the clearing of
\* the session entry (lines 174, 233, 298)
FacadeArgs ==
    {[key |-> SESSION_KEY, data |-> s, expire |-> FALSE] :
        s \in {None, LiveState(MainCalendar[1], 1)}}
    \cup {[key |-> STANDINGS_KEY, data |-> Standings(DataFull), expire |-> TRUE],
          [key |-> WEATHER_KEY, data |-> WeatherAt(1), expire |-> TRUE]}

NextFacade ==
    \/ \E a \in FacadeArgs, fault \in StoreFaults : StoreCall(a, fault)
    \/ \E key \in StoreKeys, fails \in BOOLEAN : GetCall(key, fails)
    \/ \E fails \in BOOLEAN : GetLastUpdateCall(fails)
    \/ \E year \in Years, db \in DbFaults, cache \in CacheFaults :
          GetDriverStandings(year, db, cache)
    \/ \E session_id \in SessionIds, db \in DbFaults, cache \in CacheFaults :
          GetWeather(session_id, db, cache)
    \/ Tick

SpecFacade == Init /\ [][NextFacade]_vars

(***************************************************************************)
(* The live pipeline on its own: poll_live_data called again and again by  *)
(* one loop, a call as one step, over provider data of every shape         *)
(***************************************************************************)
\* one competitor's points cannot be converted
DataMalformed ==
    [DataFull EXCEPT !.results =
        <<Result("VER", 1, 1, 25), Result("HAM", 44, 2, Malformed)>>]

\* the tyre life of one competitor's last lap cannot be converted
DataMalformedLap ==
    [DataFull EXCEPT !.laps =
        <<Lap("VER", 1, 90, 1, "SOFT", 1, 1),
          Lap("HAM", 1, 91, 1, "HARD", Malformed, 0)>>]

\* the result set lists the competitors before any lap is driven
DataGridOnly == [DataFull EXCEPT !.laps = <<>>]

PipelineData ==
    {DataFull, DataNoResults, DataNotStarted, DataMalformed, DataMalformedLap,
     DataGridOnly}

\* lines 163-207 as one call: detect and publish when no live session is
\* held, return when the state is not live, else load and process
PollLiveData(dfault, sfault, outcome, faults) ==
    LET detect == NeedsDetection(current_session)
        s == IF detect THEN DetectCurrentSession(now, calendar, dfault)
             ELSE current_session
        r1 == IF detect
              THEN StoreData(redis, SESSION_KEY, s, FALSE, now, sfault).redis
              ELSE redis
        live == AfterDetection(s) = "fetch"
    IN /\ current_session' = s
       /\ redis' = IF live THEN FetchResult(r1, outcome, now, faults) ELSE r1
       /\ ret' = [op |-> "poll_live_data", live |-> live,
                  outcome |-> outcome, faults |-> faults, at |-> now,
                  before |-> [k \in CategoryKeys |-> redis[k]]]
       /\ UNCHANGED <<now, calendar, sqlite, polling_active, polling_thread, tpc, tload,
                      cyc, startPc, stopPc, stopped>>

NextPipeline ==
    \/ \E dfault \in DetectFaults, sfault \in {"ok", "set"},
          outcome \in {LoadError} \cup PipelineData, faults \in {StoreUp, StoreDown} :
          PollLiveData(dfault, sfault, outcome, faults)
    \/ \E key \in CategoryKeys : GetCall(key, FALSE)
    \/ Tick

SpecPipeline == Init /\ [][NextPipeline]_vars

(***************************************************************************)
(* The track status through the pipeline: poll_live_data over provider     *)
(* data whose latest track status carries every known code and some        *)
(* unknown ones                                                            *)
(***************************************************************************)
StatusCodes == {"1", "2", "3", "4", "5", "6", "0", "7", "12"}

\* the session with a latest track status of the given code
DataStatus(code) ==
    [DataFull EXCEPT !.track_status =
        <<[Status |-> "1", Time |-> 1], [Status |-> code, Time |-> 2]>>]

\* what the provider can return: one session for each code
StatusSessions == {DataStatus(code) : code \in StatusCodes}

NextStatus ==
    \/ \E dfault \in DetectFaults, data \in StatusSessions,
          faults \in {StoreUp, StoreDown} :
          PollLiveData(dfault, "ok", data, faults)
    \/ GetCall(STATUS_KEY, FALSE)
    \/ Tick

SpecStatus == Init /\ [][NextStatus]_vars

(***************************************************************************)
(* The ingestion job run again and again for two sessions, over the data   *)
(* of the provider as first published and as revised, the database         *)
(* raising at any row or not                                               *)
(***************************************************************************)
\* the provider has revised the points and a lap time since the first run
DataRevised ==
    [DataFull EXCEPT !.results[1].Points = 26, !.laps[1].LapTime = 89]

\* the result set lists a competitor the drivers table does not hold, and
\* a lap has no number
DataUnknownDriver ==
    [DataFull EXCEPT
        !.results = <<Result("VER", 1, 1, 25), Result("ZZZ", 99, 3, 0),
                      Result("HAM", 44, 2, NaN)>>,
        !.laps = <<Lap("VER", 1, 90, 1, "SOFT", 1, 1),
                   Lap("VER", NaN, NaN, 1, "SOFT", 2, 1),
                   Lap("VER", 2, NaN, 1, "SOFT", 2, 1),
                   Lap("HAM", 1, 91, 1, "HARD", 1, 0)>>]

IngestData == {DataFull, DataRevised, DataUnknownDriver, DataMalformed}

\* the row at which the database raises during a run, 0 for no such row
FailRows == {0, 2}

NextIngest ==
    \/ \E session \in IngestData, session_id \in SessionIds, fail_at \in FailRows :
          MigrateResults(session, session_id, fail_at)
    \/ \E session \in IngestData, session_id \in SessionIds, fail_at \in FailRows :
          MigrateLaps(session, session_id, fail_at)

SpecIngest == Init /\ [][NextIngest]_vars

(***************************************************************************)
(* The detector on its own: every time and schedule of a bounded input     *)
(* space, one detection each.                                              *)
(***************************************************************************)
\* start times a slot of the first event can take; 13 and 14 lie inside the
\* window of 10, 14 on its closing boundary
DetectStarts == {NaT, 10, 13, 14}

\* chronological slots: the defined start times increase with the slot number
Chronological(dates) ==
    \A i, j \in 1..NUM_SESSIONS :
        (i < j /\ dates[i] # NaT /\ dates[j] # NaT) => dates[i] < dates[j]

DetectSlotDates ==
    {d \in [1..NUM_SESSIONS -> DetectStarts \cup {20}] :
        /\ Chronological(d)
        /\ d[4] = NaT
        /\ d[5] \in {NaT, 20}
        /\ \A i \in 1..3 : d[i] # 20}

DetectEventDates == {12, 20, MaxNow - 4, MaxNow - 3}

DetectFirstEvents ==
    {Event(2024, 1, date, d) : date \in DetectEventDates, d \in DetectSlotDates}

LaterEvent ==
    Event(2024, 2, MaxNow + 6, <<MaxNow - 7, NaT, NaT, NaT, MaxNow - 2>>)

DetectCalendars ==
    {<<>>} \cup {<<e>> : e \in DetectFirstEvents}
           \cup {<<e, LaterEvent>> : e \in DetectFirstEvents}

InitDetect ==
    /\ now \in 0..MaxNow
    /\ calendar \in DetectCalendars
    /\ sqlite = EmptyDb
    /\ redis = [k \in Keys |-> None]
    /\ InitProcess
    /\ ret = None

DetectCall(fault) ==
    /\ ret' = [op |-> "detect", fault |-> fault,
               result |-> DetectCurrentSession(now, calendar, fault)]
    /\ UNCHANGED <<now, calendar, sqlite, redis, procVars>>

NextDetect == \E fault \in DetectFaults : DetectCall(fault)

SpecDetect == InitDetect /\ [][NextDetect]_vars

(***************************************************************************)
(* Claims about the detector                                               *)
(***************************************************************************)
Detected == ret # None /\ ret.op = "detect"

HasNearest == Len(SelectSeq(calendar, LAMBDA e : e.EventDate >= now)) > 0

Nearest == SelectSeq(calendar, LAMBDA e : e.EventDate >= now)[1]

\* now lies in [start, start + 4h)
HalfOpen(start) == start # NaT /\ start <= now /\ now < start + 4

\* now lies in [start, start + 4h]
Closed(start) == start # NaT /\ start <= now /\ now <= start + 4

References(state, e, i) ==
    /\ state.year = e.year /\ state.round = e.round
    /\ state.session_name = e.names[i]
    /\ state.start_time = [iso |-> e.dates[i]]

C5_HalfOpenWindow ==
    (Detected /\ ret.result # None /\ ret.result.is_live) =>
        /\ ret.result.start_time.iso <= now
        /\ now < ret.result.start_time.iso + 4
        /\ ret.result.end_time = [iso |-> ret.result.start_time.iso + 4]

NoSlotLive == \A i \in 1..5 : ~Closed(Nearest.dates[i])

ReferencesFirst(state, e) ==
    /\ state # None /\ ~state.is_live
    /\ state.year = e.year /\ state.round = e.round
    /\ state.session_type = e.names[1]
    /\ state.session_name = <<"Next: ", e.names[1]>>
    /\ state.start_time =
          IF e.dates[1] = NaT THEN None ELSE [iso |-> e.dates[1]]

\* C6: when no sub-session of the nearest event is live, detect
\* returns Upcoming (referencing the first sub-session and its start time)
\* exactly when that first sub-session starts within 2 days of now, and
\* NoSession in every other case.
C6_AsStated ==
    (/\ Detected /\ ret.fault = "ok" /\ HasNearest /\ NoSlotLive
     /\ Nearest.dates[1] # NaT) =>
        LET first == Nearest.dates[1]
            within == first >= now /\ first - now <= 48
        IN  /\ within => ReferencesFirst(ret.result, Nearest)
            /\ ~within => ret.result = None

(***************************************************************************)
(* Claims about the read facade                                            *)
(***************************************************************************)
ReadStandings == ret # None /\ ret.op = "get_driver_standings"

\* what the cache holds, read without a fault
CachedSession == IF redis["session"] = None THEN None ELSE redis["session"].val.json

CachedStandings ==
    IF redis["standings"] = None THEN None ELSE redis["standings"].val.json

CachedLiveFor(year) ==
    CachedSession # None /\ CachedSession.is_live /\ CachedSession.year = year

NonEmptyList(v) == v # None /\ Len(v.list) > 0

\* C1: whenever the cached SessionState is Live for year Y and the cache holds
\* a non-empty standings record (and the cache can be read),
\* get_driver_standings(Y) returns exactly the cached standings record.
C1_LivePriority ==
    (/\ ReadStandings /\ ret.cache = "ok"
     /\ CachedLiveFor(ret.year) /\ NonEmptyList(CachedStandings)) =>
        ret.result = CachedStandings

\* C2: get_driver_standings(year) returns the cached live standings only if
\* the cached SessionState is Live and of the requested year; with the state
\* Upcoming, absent or of another year the result is the historical query
\* result, even if a standings record is still in the cache.
C2_LiveOnly ==
    (/\ ReadStandings /\ ret.cache = "ok" /\ ret.db = "ok"
     /\ ~CachedLiveFor(ret.year)) =>
        ret.result = [list |-> HistoricalStandings(ret.year)]

(***************************************************************************)
(* Claims about the poll scheduler                                         *)
(***************************************************************************)
\* the scheduler holds a Live session whose window has closed
PastWindow ==
    /\ current_session # None /\ current_session.is_live
    /\ now > current_session.start_time.iso + BUFFER_HOURS

LoopRunning == \E t \in ThreadIds : tpc[t] \notin {"unborn", "dead"}

\* C3: the poll loop re-checks liveness on every cycle: once the time is past
\* start_time + 4h of the session held as Live, the loop (fairly scheduled,
\* for as long as it runs) detects again, so that current_session
\* eventually stops being that Live session.
C3_LivenessRechecked ==
    (PastWindow /\ LoopRunning) ~> (~PastWindow \/ ~LoopRunning)

\* C7: at most one poll loop runs at any time, under every interleaving of
\* start requests.
C7_SingleLoop ==
    Cardinality({t \in ThreadIds : tpc[t] \notin {"unborn", "dead"}}) <= 1

\* C8: stop_polling lowers polling_active and returns whether or not the loop
\* thread has finished; from its return on, with no later start, the flag
\* stays lowered, no loop thread begins another cycle, a thread that reaches
\* the check of the flag ends there, and (the loop being fairly scheduled)
\* every loop thread does end.
C8_StopIsCooperative ==
    /\ [](stopped = "yes" => ~polling_active)
    /\ [](stopPc = "join" => ENABLED StopJoin)
    /\ [](stopped = "yes" => <>(stopped # "yes" \/ ~LoopRunning))
    /\ [][(stopped = "yes" /\ stopped' = "yes") =>
             \A t \in ThreadIds :
                 /\ tpc[t] = "loop" => tpc'[t] \in {"loop", "dead"}
                 /\ tpc'[t] = "poll" => tpc[t] = "poll"
                 /\ tpc[t] \in {"unborn", "dead"} => tpc'[t] = tpc[t]]_vars

\* stop_polling has returned after its join timed out: the loop thread is
\* still in its cycle
C8_Witness ==
    /\ stopped = "yes"
    /\ ret # None /\ ret.op = "stop_polling" /\ ~ret.joined
    /\ \E t \in ThreadIds : tpc[t] \in {"idle", "fetch", "sleep"}

InCycle(t) == tpc[t] \in {"idle", "fetch", "sleep"}

SessionPublished ==
    /\ redis["session"] # None
    /\ redis["session"].ttl = NoExpiry
    /\ redis["session"].val.json = current_session

C10_IdleCycleFetchesNothing ==
    \A t \in ThreadIds :
        cyc[t].det = "idle" =>
            /\ tpc[t] \in {"idle", "sleep", "loop", "dead", "unborn"}
            /\ ~cyc[t].fetched /\ ~cyc[t].wrote
            /\ tpc[t] # "idle" => cyc[t].idled
            /\ tload[t] = None

\* a cycle that detected Upcoming is through its idle sleep
C10_Witness ==
    \E t \in ThreadIds :
        /\ cyc[t].det = "idle" /\ cyc[t].idled /\ tpc[t] = "loop"
        /\ current_session # None /\ ~current_session.is_live


(***************************************************************************)
(* Claims about provider errors                                            *)
(***************************************************************************)
\* the cycle of thread t has ended in a provider error or a session without
\* laps
FailedFetch(t) == cyc[t].fetched /\ ~cyc[t].wrote

\* C11: a provider error in a cycle (the load raising, or a loaded session
\* without laps) is not fatal to the poll loop: the thread leaves the fetch
\* for the sleep of the loop, a loop thread ends only at the loop check with
\* polling_active lowered, and (the thread being fairly scheduled) after a
\* failed fetch the loop starts a further cycle unless polling_active has
\* been lowered or the process has ended.
C11_ProviderErrorNotFatal ==
    /\ [][\A t \in ThreadIds :
             /\ (tpc[t] = "fetch" /\ tpc'[t] # "fetch") =>
                    tpc'[t] \in {"sleep", "unborn"}
             /\ (tpc[t] # "dead" /\ tpc'[t] = "dead") =>
                    (tpc[t] = "loop" /\ ~polling_active)]_vars
    /\ \A t \in ThreadIds :
          (FailedFetch(t) /\ tpc[t] = "sleep") ~>
              (tpc[t] = "poll" \/ ~polling_active \/ tpc[t] = "unborn")

\* a cycle has begun right after one that ended in a provider error
C11_Witness ==
    \E t \in ThreadIds :
        /\ tpc[t] = "poll" /\ cyc[t].after_error /\ polling_active
        /\ current_session # None /\ current_session.is_live

\* C12 as stated: a live cycle whose provider fetch fails or yields no data
\* leaves the category records and the last-update timestamp as they were
\* before the cycle.
C12_AsStated ==
    \A t \in ThreadIds :
        FailedFetch(t) =>
            cyc[t].touched \cap {"category", LAST_UPDATE_KEY} = {}

\* C12 amended: a live cycle whose provider fetch raises or yields a session
\* without laps writes no category record: standings, timing, tires, weather
\* and track status stay as they were before the cycle. The session entry
\* and the last-update timestamp change only in a cycle that has detected
\* the session, by the publishing of the detected state; a cycle that finds
\* the session already held changes nothing in the store.
C12_FailedFetchWritesNoCategory ==
    \A t \in ThreadIds :
        FailedFetch(t) =>
            /\ "category" \notin cyc[t].touched
            /\ cyc[t].touched # {} => (cyc[t].det = "live" /\ cyc[t].pub # "na")
            /\ cyc[t].det = "skipped" => cyc[t].touched = {}

\* a cycle on a session already held has failed at the provider while the
\* store holds category records of an earlier cycle
C12_Witness ==
    \E t \in ThreadIds :
        /\ FailedFetch(t) /\ cyc[t].det = "skipped" /\ cyc[t].touched = {}
        /\ redis[STANDINGS_KEY] # None /\ redis[WEATHER_KEY] # None

(***************************************************************************)
(* Claims about the session entry                                          *)
(***************************************************************************)
\* some loop thread is at the start of poll_live_data
Publishing == \E t \in ThreadIds : tpc[t] = "poll"

\* C16: the session entry is non-expiring: whenever it is present it carries
\* no time-to-live, the passing of time never removes it, and it changes
\* only when a poll cycle publishes a detected state.
C16_SessionEntryNeverExpires ==
    /\ [](redis[SESSION_KEY] # None => redis[SESSION_KEY].ttl = NoExpiry)
    /\ [][/\ redis[SESSION_KEY] # None => redis'[SESSION_KEY] # None
          /\ redis'[SESSION_KEY] # redis[SESSION_KEY] => Publishing]_vars

\* the Live state published during the window of Practice 1 is still read
\* more than the time-to-live of a category record after the window's end,
\* the category records of that time having expired
C16_Witness ==
    /\ redis[SESSION_KEY] # None
    /\ GetData(redis, SESSION_KEY, FALSE) # None
    /\ GetData(redis, SESSION_KEY, FALSE).is_live
    /\ now > GetData(redis, SESSION_KEY, FALSE).end_time.iso + DATA_TTL
    /\ \A k \in CategoryKeys : redis[k] = None

(***************************************************************************)
(* Claims about the Snapshot Cache                                         *)
(***************************************************************************)
Stored == ret # None /\ ret.op = "store_data"

Got == ret # None /\ ret.op = "get_data" /\ ~ret.fails

\* C13: no partial writes: every call of store_data either returns True with
\* the key holding the new record, or returns False with the key holding
\* exactly the entry (record and expiry) it held before the call.
C13_NoPartialWrites ==
    Stored =>
        \/ ret.ok /\ GetData(redis, ret.key, FALSE) = ret.data
        \/ ~ret.ok /\ redis[ret.key] = ret.before

\* C14: whenever store_data returns True, the last-update entry was set
\* during that call: get_last_update then returns a timestamp taken no
\* earlier than the start of the call.
C14_SuccessfulPutStampsLastUpdate ==
    (Stored /\ ret.ok) =>
        /\ GetLastUpdate(redis, FALSE) # None
        /\ GetLastUpdate(redis, FALSE).iso >= ret.at
        /\ GetLastUpdate(redis, FALSE).iso <= now

\* a successful put of standings, hours after the start, has moved the
\* timestamp to the hour of the call
C14_Witness ==
    /\ Stored /\ ret.ok /\ ret.key = STANDINGS_KEY /\ ret.at >= 2
    /\ ret.before # None
    /\ GetLastUpdate(redis, FALSE) = IsoFormat(ret.at)

\* C15: a category record written with the time-to-live and not rewritten is
\* absent for every get issued more than the time-to-live after the write
\* (the weather record read back carries the hour of its write).
C15_ExpiredAfterTtl ==
    (Got /\ ret.key = WEATHER_KEY /\ ret.result # None) =>
        now <= ret.result.timestamp.iso + DATA_TTL

\* C17: store_data called twice in a row with the same key and record: the
\* value get_data returns after the second call is the one it returned
\* after the first, the record itself, whatever the second call's outcome;
\* apart from the key's own entry (its time-to-live) only the last-update
\* timestamp can differ.
C17_PutIdempotent ==
    (Stored /\ ret.repeat) =>
        /\ GetData(redis, ret.key, FALSE) = ret.seen
        /\ ret.seen = ret.data
        /\ ret.changed \subseteq {ret.key, LAST_UPDATE_KEY}

\* the standings of two competitors stored a second time, an hour's
\* time-to-live renewed
C17_Witness ==
    /\ Stored /\ ret.repeat /\ ret.ok /\ ret.key = STANDINGS_KEY
    /\ Len(ret.data.list) = 2
    /\ GetData(redis, STANDINGS_KEY, FALSE) = ret.data

(***************************************************************************)
(* Claims about the live pipeline                                          *)
(***************************************************************************)
\* a call of poll_live_data on a Live session whose load returned data
Fetched == ret # None /\ ret.op = "poll_live_data" /\ ret.live /\ ret.outcome # LoadError

\* row i of the cached standings is the normalised record of competitor i
RowOf(row, result) ==
    /\ row.driver_abbr = result.Abbreviation
    /\ row.driver_number = [str |-> result.DriverNumber]
    /\ row.position = IF result.Position = NaN THEN None ELSE [int |-> result.Position]
    /\ row.points = IF result.Points = NaN THEN None ELSE [float |-> result.Points]

\* a get of standings returns one row per competitor, in result order
StandingsOf(results) ==
    LET got == GetData(redis, STANDINGS_KEY, FALSE) IN
    /\ got # None
    /\ Len(got.list) = Len(results)
    /\ \A i \in 1..Len(results) : RowOf(got.list[i], results[i])

\* a field of the competitor's record cannot be converted
MalformedResult(result) == result.Position = Malformed \/ result.Points = Malformed

WellFormed(results) == SelectSeq(results, LAMBDA r : ~MalformedResult(r))

\* C19: when exactly one competitor's record of the result set is malformed
\* (the session has laps and the store accepts every put), that competitor
\* alone is skipped: the standings of all the others are written in that
\* cycle, and so are the timing and tire records.
C19_MalformedSkipped ==
    (/\ Fetched /\ Len(ret.outcome.laps) > 0 /\ ret.faults = StoreUp
     /\ Len(WellFormed(ret.outcome.results)) = Len(ret.outcome.results) - 1) =>
        /\ StandingsOf(WellFormed(ret.outcome.results))
        /\ redis[STANDINGS_KEY].ttl = ret.at + DATA_TTL
        /\ redis[TIMING_KEY] # None /\ redis[TIMING_KEY].ttl = ret.at + DATA_TTL
        /\ redis[TIRES_KEY] # None /\ redis[TIRES_KEY].ttl = ret.at + DATA_TTL

(***************************************************************************)
(* Claims about get_weather                                                *)
(***************************************************************************)
ReadWeather == ret # None /\ ret.op = "get_weather"

\* the cached state is Live and is the session the caller asks for
CachedLiveIs(session_id) ==
    /\ CachedSession # None /\ CachedSession.is_live
    /\ CachedSession.year = SessionOf(session_id).year
    /\ CachedSession.round = SessionOf(session_id).round
    /\ CachedSession.session_type = SessionOf(session_id).session_type

\* C20: get_weather(session_id) returns the cached live reading only when a
\* Live state is cached and it is the session asked for; with the cached
\* state Upcoming or absent, or another session asked for, the result is the
\* historical rows of session_id, even with a weather record in the cache.
C20_LiveWeatherOnly ==
    (/\ ReadWeather /\ ret.db = "ok" /\ ret.cache = "ok"
     /\ ~CachedLiveIs(ret.session_id)) =>
        ret.result = [list |-> HistoricalWeather(ret.session_id)]

(***************************************************************************)
(* Claims about the read facade as a whole                                 *)
(***************************************************************************)
CachedWeather ==
    IF redis["weather"] = None THEN None ELSE redis["weather"].val.json

\* every row of a response is a row of the given source
SameRow(a, b) == DOMAIN a = DOMAIN b /\ a = b

AllFrom(rows, source) ==
    \A i \in 1..Len(rows) : \E j \in 1..Len(source) : SameRow(rows[i], source[j])

LiveStandingsRows == IF CachedStandings = None THEN <<>> ELSE CachedStandings.list

LiveWeatherRows == IF CachedWeather = None THEN <<>> ELSE <<CachedWeather>>

\* C21: strict priority, not a merge: every response of get_driver_standings
\* and of get_weather consists entirely of records of the live cache or
\* entirely of rows of the historical store, never of rows of both.
C21_StrictPriority ==
    /\ ReadStandings =>
          \/ AllFrom(ret.result.list, LiveStandingsRows)
          \/ AllFrom(ret.result.list, HistoricalStandings(ret.year))
    /\ ReadWeather =>
          \/ AllFrom(ret.result.list, LiveWeatherRows)
          \/ AllFrom(ret.result.list, HistoricalWeather(ret.session_id))

\* both sources hold rows for the request and the response is the live
\* record alone
C21_Witness ==
    /\ ReadStandings /\ NonEmptyList(CachedStandings)
    /\ Len(HistoricalStandings(ret.year)) > 0
    /\ ret.result = CachedStandings

\* the schedule has no event left for the detector to look at (line 107)
CalendarEmpty == Len(EventsRemaining(now, calendar)) = 0

\* a response is, row for row, the given sequence of rows
SameRows(rows, source) ==
    Len(rows) = Len(source) /\ \A i \in 1..Len(rows) : SameRow(rows[i], source[i])

\* the response is what the historical query yields: its rows, or no row
\* when the historical store fails
OnlyHistorical(rows, source) ==
    IF ret.db = "ok" THEN SameRows(rows, source) ELSE Len(rows) = 0

\* C22: whenever the calendar has no entries, every detect call returns
\* NoSession, and get_driver_standings and get_weather return only the
\* historical query result for any year or session, whatever the cache holds.
C22_EmptyCalendar ==
    CalendarEmpty =>
        /\ \A fault \in DetectFaults :
              DetectCurrentSession(now, calendar, fault) = None
        /\ ReadStandings =>
              OnlyHistorical(ret.result.list, HistoricalStandings(ret.year))
        /\ ReadWeather =>
              OnlyHistorical(ret.result.list, HistoricalWeather(ret.session_id))

\* one of the store's operations has failed during the store_data call
StoreFailed == ret.fault # "ok" /\ (ret.fault = "expire" => ret.expire)

\* C23: cache errors degrade to historical data: when the store fails on an
\* operation, store_data returns False, get_data and get_last_update return
\* absent, and get_driver_standings and get_weather return the historical
\* query result.
C23_CacheErrorsDegrade ==
    /\ (Stored /\ StoreFailed) => ~ret.ok
    /\ (ret # None /\ ret.op = "get_data" /\ ret.fails) => ret.result = None
    /\ (ret # None /\ ret.op = "get_last_update" /\ ret.fails) => ret.result = None
    /\ (ReadStandings /\ ret.cache # "ok") =>
          OnlyHistorical(ret.result.list, HistoricalStandings(ret.year))
    /\ (ReadWeather /\ ret.cache # "ok") =>
          OnlyHistorical(ret.result.list, HistoricalWeather(ret.session_id))

\* a live session of the requested year and its standings are cached, the
\* read of the standings fails, and the response is the historical rows
C23_Witness ==
    /\ ReadStandings /\ ret.cache = "data" /\ ret.db = "ok"
    /\ CachedLiveFor(ret.year) /\ NonEmptyList(CachedStandings)
    /\ Len(HistoricalStandings(ret.year)) > 0
    /\ SameRows(ret.result.list, HistoricalStandings(ret.year))

(***************************************************************************)
(* Claims about the timing and track-status records                        *)
(***************************************************************************)
\* every field of the fetched data converts
Convertible(session) ==
    /\ \A i \in 1..Len(session.results) : ~MalformedResult(session.results[i])
    /\ \A i \in 1..Len(session.laps) : session.laps[i].TyreLife # Malformed

\* a cycle that fetched a started session of convertible data and stored
\* every record it built
Processed ==
    /\ Fetched /\ Len(ret.outcome.laps) > 0 /\ ret.faults = StoreUp
    /\ Convertible(ret.outcome)

\* the laps of a competitor that have a recorded lap time
TimedLaps(laps, abbr) ==
    SelectSeq(laps, LAMBDA l : l.Driver = abbr /\ l.LapTime # NaN)

\* row is built from the highest-numbered lap of the sequence
BuiltFromLatest(row, timed) ==
    \E i \in 1..Len(timed) :
        /\ \A j \in 1..Len(timed) : timed[j].LapNumber <= timed[i].LapNumber
        /\ row.lap_number = [int |-> timed[i].LapNumber]
        /\ row.lap_time = [str |-> timed[i].LapTime]

\* C24: for each competitor the timing row is built from the lap with the
\* highest lap number among the competitor's laps that have a recorded lap
\* time; a competitor without such a lap has no row in the cycle's timing
\* list, so no timing row has an absent lap_time.
C24_TimingSelection ==
    Processed =>
        LET timing == GetData(redis, TIMING_KEY, FALSE) IN
        /\ timing # None
        /\ \A k \in 1..Len(timing.list) : timing.list[k].lap_time # None
        /\ \A i \in 1..Len(ret.outcome.results) :
              LET abbr == ret.outcome.results[i].Abbreviation
                  timed == TimedLaps(ret.outcome.laps, abbr)
                  rows == SelectSeq(timing.list, LAMBDA row : row.driver_abbr = abbr)
              IN IF Len(timed) = 0 THEN Len(rows) = 0
                 ELSE Len(rows) = 1 /\ BuiltFromLatest(rows[1], timed)

\* the message the specification's table gives a code
StatusTable ==
    [c \in {"1", "2", "3", "4", "5", "6"} |->
        CASE c = "1" -> "Track Clear"
          [] c = "2" -> "Yellow Flag"
          [] c = "3" -> "Safety Car Deployed"
          [] c = "4" -> "Red Flag/Session Stopped"
          [] c = "5" -> "Virtual Safety Car Deployed"
          [] c = "6" -> "Virtual Safety Car Ending"]

LatestStatus(session) == session.track_status[Len(session.track_status)].Status

\* C25: the track-status translation is total: each of the six known codes
\* maps to its fixed message and every other code c to "Unknown Status: c";
\* it never fails, and the published track-status record carries the code
\* of the provider unchanged.
C25_TranslationTotal ==
    (Processed /\ Len(ret.outcome.track_status) > 0) =>
        LET code == LatestStatus(ret.outcome)
            status == GetData(redis, STATUS_KEY, FALSE)
        IN /\ status # None
           /\ status.status = code
           /\ IF code \in DOMAIN StatusTable
              THEN status.status_message = StatusTable[code]
              ELSE status.status_message = <<"Unknown Status: ", code>>

\* a cycle has published a status of a code outside the table
C25_Witness ==
    /\ Processed /\ Len(ret.outcome.track_status) > 0
    /\ LatestStatus(ret.outcome) = "12"
    /\ GetData(redis, STATUS_KEY, FALSE) # None
    /\ GetData(redis, STATUS_KEY, FALSE).status = "12"
    /\ GetData(redis, STATUS_KEY, FALSE).status_message = <<"Unknown Status: ", "12">>

(***************************************************************************)
(* Claims about ingestion into the historical store                        *)
(***************************************************************************)
MigratedResults == ret # None /\ ret.op = "migrate_results"

MigratedLaps == ret # None /\ ret.op = "migrate_laps"

\* no two rows of a table share the table's key
OneRowPerKey ==
    /\ \A r1, r2 \in sqlite.results :
          (r1.session_id = r2.session_id /\ r1.driver_id = r2.driver_id) => r1 = r2
    /\ \A l1, l2 \in sqlite.laps :
          (/\ l1.session_id = l2.session_id /\ l1.driver_id = l2.driver_id
           /\ l1.lap_number = l2.lap_number) => l1 = l2

\* every competitor of the run's result set that the drivers table holds
\* has its row for the session
ResultsIngested ==
    \A i \in 1..Len(ret.session.results) :
        LET driver_id == DriverId(ret.session.results[i].Abbreviation) IN
        driver_id # 0 =>
            Cardinality({row \in sqlite.results :
                            /\ row.session_id = ret.session_id
                            /\ row.driver_id = driver_id}) = 1

\* every numbered lap of the run's data, of a driver the table holds, has
\* its row for the session
LapsIngested ==
    \A i \in 1..Len(ret.session.laps) :
        LET lap == ret.session.laps[i] IN
        (DriverId(lap.Driver) # 0 /\ lap.LapNumber # NaN) =>
            Cardinality({row \in sqlite.laps :
                            /\ row.session_id = ret.session_id
                            /\ row.driver_id = DriverId(lap.Driver)
                            /\ row.lap_number = lap.LapNumber}) = 1

StartReturned == ret # None /\ ret.op = "start_polling" /\ stopPc = "idle"

\* C27: start is effective: right after start_polling returns, with no
\* stop_polling issued afterwards, polling_active is true and a poll loop
\* thread is alive that will run further cycles, also when the start
\* follows a stop_polling whose join timed out on a thread still sleeping
\* or blocked in a provider fetch.
C27_StartEffective ==
    StartReturned =>
        /\ polling_active
        /\ polling_thread # NoThread /\ IsAlive(polling_thread)

(***************************************************************************)
(* Claims about the state of the cache between and after the puts          *)
(***************************************************************************)
\* C28: a category key written with expire=True (standings, timing, tires,
\* weather, status) is never present in the store without a time-to-live,
\* whatever fails between the store's operations inside store_data.
C28_CategoryAlwaysExpires ==
    \A k \in CategoryKeys : redis[k] # None => redis[k].ttl # NoExpiry

SnapshotKeys == {STANDINGS_KEY, TIMING_KEY, TIRES_KEY}

\* the record the transform derives for the key from a fetch
DerivedFrom(k, session) ==
    CASE k = STANDINGS_KEY -> Standings(session)
      [] k = TIMING_KEY -> Timing(session)
      [] k = TIRES_KEY -> Tires(session)

\* the key holds the record of the fetch of the cycle that has just ended
PutThisCycle(k) ==
    /\ redis[k] # None /\ redis[k].ttl = ret.at + DATA_TTL
    /\ redis[k].val = JsonDumps(DerivedFrom(k, ret.outcome))

\* C29: at the end of every poll cycle the cached standings, timing and
\* tires records are all derived from the same provider fetch: the cycle
\* has either put all three from its fetch or left all three as they were,
\* whether its transform and writes succeed or one fails part-way.
C29_SnapshotConsistent ==
    (ret # None /\ ret.op = "poll_live_data") =>
        \/ \A k \in SnapshotKeys : redis[k] = ret.before[k]
        \/ \A k \in SnapshotKeys : PutThisCycle(k)

(***************************************************************************)
(* Claims about reads while the historical store is away                   *)
(***************************************************************************)
NoCursor == ret.db = "nocursor" /\ ret.cache = "ok"

\* C30: live reads do not depend on the historical store: with no cursor to
\* be had, a Live session of year Y and a non-empty live standings (or
\* weather) record in the cache, get_driver_standings(Y) (or get_weather)
\* still returns the cached live record rather than an empty list.
C30_LiveWithoutHistoricalStore ==
    /\ (/\ ReadStandings /\ NoCursor
        /\ CachedLiveFor(ret.year) /\ NonEmptyList(CachedStandings)) =>
           SameRows(ret.result.list, LiveStandingsRows)
    /\ (/\ ReadWeather /\ NoCursor
        /\ CachedSession # None /\ CachedSession.is_live /\ CachedWeather # None) =>
           SameRows(ret.result.list, LiveWeatherRows)

=============================================================================
